---- MODULE Spec2Model ----
(***************************************************************************)
(* Model of the vy-english vocabulary trainer: the answer check of         *)
(* server/routes/answers.ts (normalisation, prefix / substring / near-miss *)
(* classification, Levenshtein distance, recording of the Answer) and the  *)
(* word routes of server/routes/words.ts (study selection, create, update, *)
(* delete, favourite toggle), the handlers of the favourite toggle and of  *)
(* the stats route as they overlap with other requests at their awaits,    *)
(* the StudyCard component of the client and the useUpdateIndex hook.      *)
(*                                                                         *)
(* A JavaScript string is modelled as a sequence of one-character strings. *)
(***************************************************************************)
EXTENDS Integers, Sequences, FiniteSets, TLC

VARIABLES
  words,     \* the Word table: id -> row
  answers,   \* the Answer table, in insertion order
  nextId,    \* the autoincrement id of the next Word
  now,       \* the clock that stamps createdAt
  resp,      \* the last request served, with its response
  lev,       \* a call of levenshteinDistance: its arguments and its result
  inflight,  \* the handlers that wait on a query, each with its locals
  card,      \* the state of a mounted StudyCard component
  hook       \* the state of a useUpdateIndex hook

vars == <<words, answers, nextId, now, resp, lev, inflight, card, hook>>

\* ------------------------------------------------------------------------
\* Bounds of the model
\* ------------------------------------------------------------------------

\* longest request string of the evaluator specification
MaxLen == 3
\* longest string handed to levenshteinDistance in its own specification
MaxLevLen == 3
\* words ever created in a study session
MaxWords == 2
\* answers recorded in a study session
MaxStudyAnswers == 2
\* answers recorded in the Answer table of one word
MaxAnswers == 2
\* favourite requests that overlap
MaxToggles == 3
\* stats requests served while words and answers are added
MaxStats == 1
\* correct answers a study card receives
MaxCorrect == 2
\* longest array whose index useUpdateIndex updates
MaxArrayLength == 6

\* ------------------------------------------------------------------------
\* Strings
\* ------------------------------------------------------------------------

\* characters a request may carry: lower-case letters, an upper-case
\* letter and a blank
RawChars == {"a", "b", "B", " "}
\* characters left after toLowerCase()
LowerChars == {"a", "b", " "}
\* letters of the words handed to levenshteinDistance on its own
Letters == {"a", "b"}

StringsUpTo(chars, n) == UNION {[1..k -> chars] : k \in 0..n}

Min2(x, y) == IF x <= y THEN x ELSE y

\* Math.min of three numbers
Min3(x, y, z) == Min2(x, Min2(y, z))

\* String.prototype.toLowerCase, one character
LowerChar(c) == IF c = "B" THEN "b" ELSE IF c = "A" THEN "a" ELSE c

\* String.prototype.toLowerCase
toLowerCase(s) == [i \in 1..Len(s) |-> LowerChar(s[i])]

IsSpace(c) == c = " "

\* String.prototype.trim: drops the leading and the trailing white space
trim(s) ==
  LET inked == {i \in 1..Len(s) : ~IsSpace(s[i])}
  IN  IF inked = {} THEN <<>>
      ELSE LET first == CHOOSE i \in inked : \A k \in inked : i <= k
               last  == CHOOSE i \in inked : \A k \in inked : k <= i
           IN  SubSeq(s, first, last)

\* answer.toLowerCase().trim(), and the same without toLowerCase()
NormalizeNoLower(s) == trim(s)
Normalize(s) == trim(toLowerCase(s))

\* String.prototype.startsWith
startsWith(t, s) == Len(s) <= Len(t) /\ SubSeq(t, 1, Len(s)) = s

\* String.prototype.includes
includes(t, s) ==
  \E i \in 1..(Len(t) - Len(s) + 1) : SubSeq(t, i, i + Len(s) - 1) = s

\* ------------------------------------------------------------------------
\* levenshteinDistance (answers.ts 154-177)
\* ------------------------------------------------------------------------

\* matrix[0][i] = i, the first row, kept as a sequence: cell i is row[i + 1]
FirstRow(str1) == [k \in 1..(Len(str1) + 1) |-> k - 1]

\* the indicator of answers.ts 167, and the indicator that charges a match
\* like a substitution
IndicatorAlwaysOne(c1, c2) == 1
Indicator(c1, c2) == IF c1 = c2 THEN 0 ELSE 1

\* the inner loop over i of row j, given row j - 1 and the cells 0..i-1 of
\* row j already filled in
RECURSIVE FillRow(_, _, _, _, _)
FillRow(str1, str2, j, prev, row) ==
  LET i == Len(row)
  IN  IF i > Len(str1) THEN row
      ELSE LET indicator == Indicator(str1[i], str2[j])
               cell == Min3(row[i] + 1, prev[i + 1] + 1, prev[i] + indicator)
           IN  FillRow(str1, str2, j, prev, Append(row, cell))

\* the outer loop over j: rows 1..Len(str2), each started with matrix[j][0] = j
RECURSIVE FillMatrix(_, _, _, _)
FillMatrix(str1, str2, j, prev) ==
  IF j > Len(str2) THEN prev
  ELSE FillMatrix(str1, str2, j + 1, FillRow(str1, str2, j, prev, <<j>>))

levenshteinDistance(str1, str2) ==
  FillMatrix(str1, str2, 1, FirstRow(str1))[Len(str1) + 1]

\* ------------------------------------------------------------------------
\* POST /answers/check (answers.ts 14-89)
\* ------------------------------------------------------------------------

\* the hint texts, and JavaScript's undefined
HintContinue(remaining) == <<"continue", remaining>>
HintPartially == <<"partially-correct">>
HintSpelling == <<"check-spelling">>
HintEmpty == <<"">>
Undefined == <<"undefined">>

\* isCorrect of answers.ts 41
IsCorrect(userAnswer, correctAnswer) == userAnswer = correctAnswer

\* the guard of answers.ts 47, and the guard without its length test
ChecksPartialAlways(isCorrect, userAnswer) == ~isCorrect
ChecksPartial(isCorrect, userAnswer) == ~isCorrect /\ Len(userAnswer) > 0

\* the letter count of the hint of answers.ts 51, and the count of the
\* letters typed instead of the letters left
RemainingTyped(userAnswer, correctAnswer) == Len(userAnswer)
Remaining(userAnswer, correctAnswer) == Len(correctAnswer) - Len(userAnswer)

\* the test of answers.ts 59, and the test with a strict comparison
NearMissStrict(userAnswer, correctAnswer) ==
  levenshteinDistance(userAnswer, correctAnswer) < 2
NearMiss(userAnswer, correctAnswer) ==
  levenshteinDistance(userAnswer, correctAnswer) <= 2

\* the chain of answers.ts 49-62 with the spelling test moved before the
\* substring test
PartialMatchSpellingFirst(userAnswer, correctAnswer) ==
  IF startsWith(correctAnswer, userAnswer)
  THEN [isPartial |-> TRUE,
        hint |-> HintContinue(Remaining(userAnswer, correctAnswer))]
  ELSE IF NearMiss(userAnswer, correctAnswer)
  THEN [isPartial |-> TRUE, hint |-> HintSpelling]
  ELSE IF includes(correctAnswer, userAnswer)
  THEN [isPartial |-> TRUE, hint |-> HintPartially]
  ELSE [isPartial |-> FALSE, hint |-> HintEmpty]

\* the chain of answers.ts 49-62: prefix, then substring, then near miss
PartialMatch(userAnswer, correctAnswer) ==
  IF startsWith(correctAnswer, userAnswer)
  THEN [isPartial |-> TRUE,
        hint |-> HintContinue(Remaining(userAnswer, correctAnswer))]
  ELSE IF includes(correctAnswer, userAnswer)
  THEN [isPartial |-> TRUE, hint |-> HintPartially]
  ELSE IF NearMiss(userAnswer, correctAnswer)
  THEN [isPartial |-> TRUE, hint |-> HintSpelling]
  ELSE [isPartial |-> FALSE, hint |-> HintEmpty]

\* the classification of answers.ts 37-63
Evaluate(answer, english) ==
  LET userAnswer == Normalize(answer)
      correctAnswer == Normalize(english)
      isCorrect == IsCorrect(userAnswer, correctAnswer)
      partial ==
        IF ChecksPartial(isCorrect, userAnswer)
        THEN PartialMatch(userAnswer, correctAnswer)
        ELSE [isPartial |-> FALSE, hint |-> HintEmpty]
  IN  [userAnswer |-> userAnswer, isCorrect |-> isCorrect,
       isPartial |-> partial.isPartial, hint |-> partial.hint]

\* the Answer row of answers.ts 66-72, and the row that counts a partial
\* match as correct
NewAnswerPartialCounts(wordId, ev) ==
  [wordId |-> wordId, answer |-> ev.userAnswer,
   isCorrect |-> ev.isCorrect \/ ev.isPartial]
NewAnswer(wordId, ev) ==
  [wordId |-> wordId, answer |-> ev.userAnswer, isCorrect |-> ev.isCorrect]

\* the response body of answers.ts 74-79, and the body that shows the
\* answer only once the text is right or nearly right
CheckAnswerResponseHidden(ev, word) ==
  [isCorrect |-> ev.isCorrect,
   isPartial |-> ev.isPartial,
   hint |-> IF ev.isPartial THEN ev.hint ELSE Undefined,
   correctAnswer |->
     IF ev.isCorrect \/ ev.isPartial THEN word.english ELSE Undefined]
CheckAnswerResponse(ev, word) ==
  [isCorrect |-> ev.isCorrect,
   isPartial |-> ev.isPartial,
   hint |-> IF ev.isPartial THEN ev.hint ELSE Undefined,
   correctAnswer |-> word.english]

\* wordId = 0 stands for a missing word id, answer = <<>> for a missing or
\* empty answer: both are falsy
CheckAnswer(wordId, answer) ==
  /\ IF wordId = 0 \/ answer = <<>>
     THEN /\ resp' = [op |-> "check", wordId |-> wordId, answer |-> answer,
                      status |-> 400]
          /\ UNCHANGED answers
     ELSE IF wordId \notin DOMAIN words
     THEN /\ resp' = [op |-> "check", wordId |-> wordId, answer |-> answer,
                      status |-> 404]
          /\ UNCHANGED answers
     ELSE LET word == words[wordId]
              ev == Evaluate(answer, word.english)
          IN  /\ answers' = Append(answers, NewAnswer(wordId, ev))
              /\ resp' = [op |-> "check", wordId |-> wordId, answer |-> answer,
                          status |-> 200, data |-> CheckAnswerResponse(ev, word)]
  /\ UNCHANGED <<words, nextId, now, lev, inflight, card, hook>>

\* ------------------------------------------------------------------------
\* Specification of levenshteinDistance alone
\* ------------------------------------------------------------------------

NoResponse == [op |-> "none"]
\* no handler waits, no card is mounted, no hook is in use
NoRequests == <<>>
NoCard == [mounted |-> FALSE]
NoHook == [mounted |-> FALSE]
NoCall == [str1 |-> <<>>, str2 |-> <<>>, result |-> -1]

LevStrings == StringsUpTo(Letters, MaxLevLen)

InitLev ==
  /\ words = <<>>
  /\ answers = <<>>
  /\ nextId = 1
  /\ now = 1
  /\ resp = NoResponse
  /\ lev \in [str1 : LevStrings, str2 : LevStrings, result : {-1}]
  /\ inflight = NoRequests
  /\ card = NoCard
  /\ hook = NoHook

CallLevenshtein ==
  /\ lev.result = -1
  /\ lev' = [lev EXCEPT !.result = levenshteinDistance(lev.str1, lev.str2)]
  /\ UNCHANGED <<words, answers, nextId, now, resp, inflight, card, hook>>

NextLev == CallLevenshtein

SpecLev == InitLev /\ [][NextLev]_vars

\* ------------------------------------------------------------------------
\* Specification of the answer check over one stored word
\* ------------------------------------------------------------------------

RawStrings == StringsUpTo(RawChars, MaxLen)

\* what POST /words stores as english: the request text, normalised
StoredStrings == {Normalize(s) : s \in RawStrings}

\* the row prisma.word.create stores (words.ts 135-142): the handler gives
\* no isFavorite, so a new word is no favourite; createdAt is the time of
\* the insert, and later inserts get later times
WordRow(id, english, createdAt) ==
  [id |-> id, english |-> english, isFavorite |-> FALSE,
   createdAt |-> createdAt]

InitEval ==
  /\ \E english \in StoredStrings : words = (1 :> WordRow(1, english, 1))
  /\ answers = <<>>
  /\ nextId = 2
  /\ now = 2
  /\ resp = NoResponse
  /\ lev = NoCall
  /\ inflight = NoRequests
  /\ card = NoCard
  /\ hook = NoHook

\* one request per behaviour, about the stored word
NextEval ==
  /\ resp = NoResponse
  /\ \E answer \in RawStrings : CheckAnswer(1, answer)

SpecEval == InitEval /\ [][NextEval]_vars

\* ------------------------------------------------------------------------
\* The word routes (words.ts)
\* ------------------------------------------------------------------------

\* Word rows with a correct Answer: answers { some: { isCorrect: true } },
\* and the rows whose latest Answer is correct
HasCorrectAnswerLatest(id) ==
  \E i \in 1..Len(answers) :
    /\ answers[i].wordId = id /\ answers[i].isCorrect
    /\ \A k \in (i + 1)..Len(answers) : answers[k].wordId # id
HasCorrectAnswer(id) ==
  \E i \in 1..Len(answers) : answers[i].wordId = id /\ answers[i].isCorrect

\* the where clause of words.ts 35-39, and the clause that forgets the
\* favourite filter
MatchesEverything(row, favoriteOnly) == TRUE
MatchesWhere(row, favoriteOnly) == favoriteOnly = "true" => row.isFavorite

\* the filter answers { none: { isCorrect: true } } of words.ts 45-49, and
\* the query without it
NoneCorrectIgnored(id) == TRUE
NoneCorrect(id) == ~HasCorrectAnswer(id)

\* orderBy createdAt asc with findFirst: the rows a findFirst may return,
\* and those it may return under orderBy createdAt desc
NewestFirst(rows) == {r \in rows : \A o \in rows : o.createdAt <= r.createdAt}
OldestFirst(rows) == {r \in rows : \A o \in rows : r.createdAt <= o.createdAt}

Rows == {words[id] : id \in DOMAIN words}

\* GET /words/study (words.ts 31-78); the handler reads favoriteOnly from the
\* query and nothing else, so an excludeId sent along is not looked at
GetStudyWord(favoriteOnly, excludeId) ==
  LET unanswered == {r \in Rows : MatchesWhere(r, favoriteOnly) /\ NoneCorrect(r.id)}
      fallback == {r \in Rows : MatchesWhere(r, favoriteOnly)}
      request == [op |-> "study", favoriteOnly |-> favoriteOnly,
                  excludeId |-> excludeId]
  IN  /\ IF unanswered # {}
         THEN \E word \in OldestFirst(unanswered) :
                resp' = request @@ [status |-> 200, data |-> word]
         ELSE IF fallback # {}
         THEN \E fallbackWord \in OldestFirst(fallback) :
                resp' = request @@ [status |-> 200, data |-> fallbackWord]
         ELSE resp' = request @@ [status |-> 404]
      /\ UNCHANGED <<words, answers, nextId, now, lev, inflight, card, hook>>

\* POST /words (words.ts 124-152): english = <<>> stands for a missing or
\* empty field; the other texts of the request are taken as given
CreateWord(english) ==
  /\ IF english = <<>>
     THEN /\ resp' = [op |-> "create", status |-> 400]
          /\ UNCHANGED <<words, nextId, now>>
     ELSE LET word == WordRow(nextId, Normalize(english), now)
          IN  /\ words' = words @@ (nextId :> word)
              /\ nextId' = nextId + 1
              /\ now' = now + 1
              /\ resp' = [op |-> "create", status |-> 201, data |-> word]
  /\ UNCHANGED <<answers, lev, inflight, card, hook>>

\* Answer rows refer to their Word: a Word that has Answers is not deleted
\* under them (the store refuses, the handler answers 500)
DeleteRefused(id) == \E i \in 1..Len(answers) : answers[i].wordId = id

\* DELETE /words/:id (words.ts 185-201)
DeleteWord(id) ==
  /\ IF id \notin DOMAIN words \/ DeleteRefused(id)
     THEN /\ resp' = [op |-> "delete", id |-> id, status |-> 500]
          /\ UNCHANGED words
     ELSE /\ words' = [k \in DOMAIN words \ {id} |-> words[k]]
          /\ resp' = [op |-> "delete", id |-> id, status |-> 200]
  /\ UNCHANGED <<answers, nextId, now, lev, inflight, card, hook>>

\* PATCH /words/:id/favorite (words.ts 204-232), served without another
\* request in between
ToggleFavorite(id) ==
  /\ IF id \notin DOMAIN words
     THEN /\ resp' = [op |-> "favorite", id |-> id, status |-> 404]
          /\ UNCHANGED words
     ELSE LET currentWord == words[id]
              word == [currentWord EXCEPT !.isFavorite = ~currentWord.isFavorite]
          IN  /\ words' = [words EXCEPT ![id] = word]
              /\ resp' = [op |-> "favorite", id |-> id, status |-> 200,
                          data |-> word]
  /\ UNCHANGED <<answers, nextId, now, lev, inflight, card, hook>>

\* what PUT /words/:id keeps of a request body: the fields that are not
\* undefined, english normalised when it is not empty (words.ts 160-167)
CleanData(data) ==
  IF "english" \in DOMAIN data /\ data.english # <<>>
  THEN [data EXCEPT !.english = Normalize(data.english)]
  ELSE data

\* PUT /words/:id (words.ts 155-182): the store refuses an unknown id
UpdateWord(id, data) ==
  /\ IF id \notin DOMAIN words
     THEN /\ resp' = [op |-> "update", id |-> id, status |-> 500]
          /\ UNCHANGED words
     ELSE LET cleanData == CleanData(data)
              word == cleanData @@ words[id]
          IN  /\ words' = [words EXCEPT ![id] = word]
              /\ resp' = [op |-> "update", id |-> id, status |-> 200,
                          data |-> word]
  /\ UNCHANGED <<answers, nextId, now, lev, inflight, card, hook>>

\* ------------------------------------------------------------------------
\* Specifications of the server: requests served one after the other
\* ------------------------------------------------------------------------

\* the request bodies of PUT /words/:id over the texts given
UpdateRequests(texts) == [english : texts] \cup [isFavorite : BOOLEAN]

\* the ids a request may name: those given out so far and the next one,
\* which no word has yet; 0 stands for no id
Ids == 1..nextId

CreateRequests(texts, maxWords) ==
  \E english \in texts : CreateWord(english) /\ nextId' <= maxWords + 1

WordRequests(texts) ==
  \/ \E id \in Ids, data \in UpdateRequests(texts) : UpdateWord(id, data)
  \/ \E id \in Ids : DeleteWord(id)
  \/ \E id \in Ids : ToggleFavorite(id)

StudyRequests ==
  \E favoriteOnly \in {"true", "false"}, excludeId \in {0} \cup Ids :
    GetStudyWord(favoriteOnly, excludeId)

CheckRequests(texts, maxAnswers) ==
  \E wordId \in {0} \cup Ids, answer \in texts :
    CheckAnswer(wordId, answer) /\ Len(answers') <= maxAnswers

\* The study session: words of one text, answered exactly (in another case,
\* with blanks around), wrongly or not at all
StudyWordTexts == {<<" ", "a", "B", "b">>}
StudyAnswerTexts == {<<"A", "b", "b", " ">>, <<"b", "a", "a">>, <<>>}

Init ==
  /\ words = <<>>
  /\ answers = <<>>
  /\ nextId = 1
  /\ now = 1
  /\ resp = NoResponse
  /\ lev = NoCall
  /\ inflight = NoRequests
  /\ card = NoCard
  /\ hook = NoHook

Next ==
  \/ CreateRequests(StudyWordTexts \cup {<<>>}, MaxWords)
  \/ WordRequests(StudyWordTexts)
  \/ StudyRequests
  \/ CheckRequests(StudyAnswerTexts, MaxStudyAnswers)

Spec == Init /\ [][Next]_vars

\* The Answer table of one stored word, of a text or blank, under answers
\* of every outcome against the text - exact, prefix, substring, near miss,
\* wrong, blank, missing
CheckedWordTexts == {<<" ", "a", "B", "b">>, <<" ">>}
CheckedAnswerTexts ==
  {<<"A", "b", "b", " ">>, <<"a">>, <<"b", "b">>, <<"b", "a">>,
   <<"b", "a", "a">>, <<" ">>, <<>>}

InitAnswers ==
  /\ \E english \in CheckedWordTexts :
       words = (1 :> WordRow(1, Normalize(english), 1))
  /\ answers = <<>>
  /\ nextId = 2
  /\ now = 2
  /\ resp = NoResponse
  /\ lev = NoCall
  /\ inflight = NoRequests
  /\ card = NoCard
  /\ hook = NoHook

NextAnswers ==
  \/ WordRequests(CheckedWordTexts)
  \/ StudyRequests
  \/ CheckRequests(CheckedAnswerTexts, MaxAnswers)

SpecAnswers == InitAnswers /\ [][NextAnswers]_vars

\* ------------------------------------------------------------------------
\* Handlers that overlap: a handler gives way at each await, and the
\* handlers of other requests run between its queries
\* ------------------------------------------------------------------------

\* the handler p of inflight has been entered and has not answered yet
Waits(p, op, pc) ==
  /\ p \in DOMAIN inflight
  /\ inflight[p].op = op
  /\ inflight[p].pc = pc

\* a handler that has answered stays in inflight with its status
Answered(request, status) ==
  [op |-> request.op, id |-> request.id, pc |-> "done", status |-> status]

\* PATCH /words/:id/favorite arrives (words.ts 204-206)
ToggleArrives(id) ==
  /\ inflight' = Append(inflight,
                        [op |-> "favorite", id |-> id, pc |-> "findUnique"])
  /\ UNCHANGED <<words, answers, nextId, now, resp, lev, card, hook>>

\* the first query of the handler and the 404 on an unknown id
\* (words.ts 208-217)
ToggleFindUnique(p) ==
  /\ Waits(p, "favorite", "findUnique")
  /\ LET id == inflight[p].id
     IN  IF id \notin DOMAIN words
         THEN /\ inflight' = [inflight EXCEPT ![p] = Answered(@, 404)]
              /\ resp' = [op |-> "favorite", id |-> id, status |-> 404]
         ELSE /\ inflight' =
                   [inflight EXCEPT ![p] =
                      [op |-> "favorite", id |-> id, pc |-> "update",
                       currentWord |-> words[id]]]
              /\ UNCHANGED resp
  /\ UNCHANGED <<words, answers, nextId, now, lev, card, hook>>

\* the second query: isFavorite is set to the negation of what the first
\* query read (words.ts 219-224)
ToggleUpdate(p) ==
  /\ Waits(p, "favorite", "update")
  /\ LET id == inflight[p].id
         currentWord == inflight[p].currentWord
     IN  IF id \notin DOMAIN words
         THEN /\ inflight' = [inflight EXCEPT ![p] = Answered(@, 500)]
              /\ resp' = [op |-> "favorite", id |-> id, status |-> 500]
              /\ UNCHANGED words
         ELSE LET word == [words[id] EXCEPT
                             !.isFavorite = ~currentWord.isFavorite]
              IN  /\ words' = [words EXCEPT ![id] = word]
                  /\ inflight' = [inflight EXCEPT ![p] = Answered(@, 200)]
                  /\ resp' = [op |-> "favorite", id |-> id, status |-> 200,
                              data |-> word]
  /\ UNCHANGED <<answers, nextId, now, lev, card, hook>>

\* Favourite requests on two stored words and on an id no word has, and
\* requests that delete a word
InitToggle ==
  /\ words = (1 :> WordRow(1, <<"a">>, 1)) @@ (2 :> WordRow(2, <<"b">>, 2))
  /\ answers = <<>>
  /\ nextId = 3
  /\ now = 3
  /\ resp = NoResponse
  /\ lev = NoCall
  /\ inflight = NoRequests
  /\ card = NoCard
  /\ hook = NoHook

NextToggle ==
  \/ \E id \in Ids : Len(inflight) < MaxToggles /\ ToggleArrives(id)
  \/ \E p \in DOMAIN inflight : ToggleFindUnique(p)
  \/ \E p \in DOMAIN inflight : ToggleUpdate(p)
  \/ \E id \in DOMAIN words : DeleteWord(id)

SpecToggle == InitToggle /\ [][NextToggle]_vars

\* GET /answers/stats arrives (answers.ts 112-113)
StatsArrives ==
  /\ inflight' = Append(inflight, [op |-> "stats", pc |-> "totalAnswers"])
  /\ UNCHANGED <<words, answers, nextId, now, resp, lev, card, hook>>

\* one count query of the handler: its result is kept under the name of the
\* constant it is assigned to, and the handler waits on the next query
StatsQuery(p, pc, count, nextPc) ==
  /\ Waits(p, "stats", pc)
  /\ inflight' = [inflight EXCEPT ![p] = (pc :> count) @@ [@ EXCEPT !.pc = nextPc]]
  /\ UNCHANGED <<words, answers, nextId, now, resp, lev, card, hook>>

\* prisma.answer.count() (answers.ts 114)
StatsTotalAnswers(p) ==
  StatsQuery(p, "totalAnswers", Len(answers), "correctAnswers")

\* prisma.answer.count({ where: { isCorrect: true } }) (answers.ts 115-117)
StatsCorrectAnswers(p) ==
  StatsQuery(p, "correctAnswers",
             Cardinality({i \in DOMAIN answers : answers[i].isCorrect}),
             "totalWords")

\* prisma.word.count() (answers.ts 119)
StatsTotalWords(p) ==
  StatsQuery(p, "totalWords", Cardinality(DOMAIN words), "learnedWords")

\* prisma.word.count over the words with a correct Answer (answers.ts 120-128)
StatsLearnedWords(p) ==
  StatsQuery(p, "learnedWords",
             Cardinality({id \in DOMAIN words : HasCorrectAnswer(id)}),
             "favoriteWords")

\* Math.round((correctAnswers / totalAnswers) * 100), halves rounded up
Accuracy(correctAnswers, totalAnswers) ==
  IF totalAnswers > 0
  THEN (200 * correctAnswers + totalAnswers) \div (2 * totalAnswers)
  ELSE 0

\* the last count query and the response (answers.ts 130-143)
StatsFavoriteWords(p) ==
  /\ Waits(p, "stats", "favoriteWords")
  /\ LET counted == inflight[p]
         favoriteWords ==
           Cardinality({id \in DOMAIN words : words[id].isFavorite})
         stats ==
           [totalAnswers |-> counted.totalAnswers,
            correctAnswers |-> counted.correctAnswers,
            accuracy |-> Accuracy(counted.correctAnswers, counted.totalAnswers),
            totalWords |-> counted.totalWords,
            learnedWords |-> counted.learnedWords,
            favoriteWords |-> favoriteWords]
     IN  /\ inflight' = [inflight EXCEPT ![p] =
                           [op |-> "stats", pc |-> "done", status |-> 200]]
         /\ resp' = [op |-> "stats", status |-> 200, data |-> stats]
  /\ UNCHANGED <<words, answers, nextId, now, lev, card, hook>>

\* Stats requests served while words are created and marked and answers,
\* exact and wrong, are checked
StatsAnswerTexts == {<<"A", "b", "b", " ">>, <<"b", "a", "a">>}

StatsRequests ==
  \/ Len(inflight) < MaxStats /\ StatsArrives
  \/ \E p \in DOMAIN inflight : StatsTotalAnswers(p)
  \/ \E p \in DOMAIN inflight : StatsCorrectAnswers(p)
  \/ \E p \in DOMAIN inflight : StatsTotalWords(p)
  \/ \E p \in DOMAIN inflight : StatsLearnedWords(p)
  \/ \E p \in DOMAIN inflight : StatsFavoriteWords(p)

NextStats ==
  \/ StatsRequests
  \/ CreateRequests(StudyWordTexts, MaxWords)
  \/ \E id \in DOMAIN words : ToggleFavorite(id)
  \/ CheckRequests(StatsAnswerTexts, MaxStudyAnswers)

SpecStats == Init /\ [][NextStats]_vars

\* ------------------------------------------------------------------------
\* The study card (StudyCard.tsx 250-528)
\* ------------------------------------------------------------------------

\* The state of the component: its useState cells (currentWord with 0 for
\* null, answer, result, loading, error, isExampleRevealed), the timer held
\* by autoAdvanceTimeoutRef, the requests it waits on, the correct results it
\* has received and the calls of onWordCompleted it has made
CardWords == {1, 2}
CardTexts == {<<>>, <<" ">>, <<"a", "b">>}

\* loadNextWord up to its await (StudyCard.tsx 264-271): the request is sent
\* with the id of the current word when excludeCurrent is set
LoadNextWord(c, excludeCurrent) ==
  [c EXCEPT !.loading = TRUE, !.error = FALSE, !.loads = @ + 1,
            !.excludeId = IF excludeCurrent THEN c.currentWord ELSE 0]

\* the component after its first effect has run (StudyCard.tsx 254-262 and
\* 283-285)
MountedCard ==
  LoadNextWord([mounted |-> TRUE, currentWord |-> 0, answer |-> <<>>,
                result |-> "null", loading |-> FALSE, error |-> FALSE,
                isExampleRevealed |-> FALSE, timer |-> FALSE,
                loads |-> 0, checks |-> 0, excludeId |-> 0,
                correct |-> 0, completed |-> 0], FALSE)

\* the card proper is rendered (StudyCard.tsx 337-374)
CardShown == card.mounted /\ card.currentWord # 0

\* the text field takes input (StudyCard.tsx 437)
FieldEnabled ==
  CardShown /\ ~card.loading /\ card.result # "correct"
  /\ ~card.isExampleRevealed

ClientStep(c) ==
  /\ card' = c
  /\ UNCHANGED <<words, answers, nextId, now, resp, lev, inflight, hook>>

\* getStudyWord resolves (StudyCard.tsx 272-275 and 278-280)
LoadResolves(word) ==
  /\ card.mounted /\ card.loads > 0
  /\ ClientStep([card EXCEPT !.loads = @ - 1, !.currentWord = word,
                             !.answer = <<>>, !.result = "null",
                             !.isExampleRevealed = FALSE, !.loading = FALSE])

\* getStudyWord rejects (StudyCard.tsx 276-280)
LoadRejects ==
  /\ card.mounted /\ card.loads > 0
  /\ ClientStep([card EXCEPT !.loads = @ - 1, !.error = TRUE,
                             !.loading = FALSE])

\* Try Again of the error view (StudyCard.tsx 345-356)
RetryLoad ==
  /\ card.mounted /\ card.error /\ card.currentWord = 0 /\ ~card.loading
  /\ ClientStep(LoadNextWord(card, FALSE))

\* onChange of the text field (StudyCard.tsx 436)
TypeAnswer(text) ==
  /\ FieldEnabled
  /\ ClientStep([card EXCEPT !.answer = text])

\* the blurred example is clicked (StudyCard.tsx 331-335 and 403)
RevealExample ==
  /\ CardShown /\ ~card.isExampleRevealed
  /\ ClientStep([card EXCEPT !.isExampleRevealed = TRUE])

\* handleSubmit up to its await (StudyCard.tsx 287-296)
Submit ==
  /\ FieldEnabled
  /\ trim(card.answer) # <<>>
  /\ ClientStep([card EXCEPT !.loading = TRUE, !.checks = @ + 1])

\* checkAnswer resolves: the result is shown and, when it is correct, the
\* auto-advance timer is set anew (StudyCard.tsx 298-312 and 315-317)
CheckResolves(isCorrect) ==
  /\ card.mounted /\ card.checks > 0
  /\ isCorrect => card.correct < MaxCorrect
  /\ ClientStep([card EXCEPT
       !.checks = @ - 1,
       !.result = IF isCorrect THEN "correct" ELSE "other",
       !.timer = IF isCorrect THEN TRUE ELSE @,
       !.correct = IF isCorrect THEN @ + 1 ELSE @,
       !.loading = FALSE])

\* checkAnswer rejects (StudyCard.tsx 313-317)
CheckRejects ==
  /\ card.mounted /\ card.checks > 0
  /\ ClientStep([card EXCEPT !.checks = @ - 1, !.error = TRUE,
                             !.loading = FALSE])

\* the auto-advance timer fires (StudyCard.tsx 307-311)
TimerFires ==
  /\ card.mounted /\ card.timer
  /\ ClientStep([LoadNextWord(card, FALSE) EXCEPT
       !.completed = @ + 1, !.timer = FALSE])

\* Try Again under a result that is not correct (StudyCard.tsx 482-494)
TryAgain ==
  /\ CardShown /\ card.result = "other"
  /\ ClientStep([card EXCEPT !.answer = <<>>, !.result = "null"])

\* Next is pressed (StudyCard.tsx 496-513)
PressNext ==
  /\ CardShown /\ ~card.loading
  /\ ClientStep([LoadNextWord(card, TRUE) EXCEPT
       !.timer = FALSE,
       !.completed = IF card.result = "correct" THEN @ + 1 ELSE @])

InitCard ==
  /\ words = <<>>
  /\ answers = <<>>
  /\ nextId = 1
  /\ now = 1
  /\ resp = NoResponse
  /\ lev = NoCall
  /\ inflight = NoRequests
  /\ card = MountedCard
  /\ hook = NoHook

\* the calls of onWordCompleted are followed up to one past the correct
\* results the card may receive
NextCard ==
  \/ \E word \in CardWords : LoadResolves(word)
  \/ LoadRejects
  \/ RetryLoad
  \/ \E text \in CardTexts : TypeAnswer(text)
  \/ RevealExample
  \/ Submit
  \/ \E isCorrect \in BOOLEAN : CheckResolves(isCorrect)
  \/ CheckRejects
  \/ TimerFires /\ card'.completed <= MaxCorrect + 1
  \/ TryAgain
  \/ PressNext /\ card'.completed <= MaxCorrect + 1

SpecCard == InitCard /\ [][NextCard]_vars

\* ------------------------------------------------------------------------
\* useUpdateIndex (hooks/useUpdateIndex.tsx)
\* ------------------------------------------------------------------------

\* what getRandomInt(maxIndex, currentIndex) may return: any index up to
\* maxIndex
GetRandomInt(maxIndex, currentIndex) == 0..maxIndex

\* isAcceptedIndex (useUpdateIndex.tsx 21-34)
isAcceptedIndex(currentIndex, newIndex, maxIndex) ==
  LET acceptedAsSecondToLast == newIndex = 1 /\ maxIndex = 1
      acceptedAsLastWord == currentIndex = 1 /\ newIndex = 0 /\ maxIndex = 0
      acceptedAsNotZero ==
        newIndex # 0 /\ ~acceptedAsLastWord /\ ~acceptedAsSecondToLast
  IN  acceptedAsLastWord \/ acceptedAsSecondToLast \/ acceptedAsNotZero

\* the hook after useState(0), no call of updateIndex made yet; turn counts
\* the turns of the loop modulo 2, so that a turn that draws the index it
\* had is a step like any other
MountedHook ==
  [mounted |-> TRUE, currentIndex |-> 0, pc |-> "idle",
   maxIndex |-> 0, newIndex |-> 0, turn |-> 0]

HookStep(h) ==
  /\ hook' = h
  /\ UNCHANGED <<words, answers, nextId, now, resp, lev, inflight, card>>

\* updateIndex is called and draws its first index (useUpdateIndex.tsx 7-9)
CallUpdateIndex(arrayLength) ==
  /\ hook.mounted /\ hook.pc = "idle"
  /\ LET maxIndex == arrayLength - 1
     IN  \E newIndex \in GetRandomInt(maxIndex, hook.currentIndex) :
           HookStep([hook EXCEPT !.pc = "while", !.maxIndex = maxIndex,
                                 !.newIndex = newIndex, !.turn = 0])

\* one turn of the loop: the index is not accepted and newIndex is drawn
\* again (useUpdateIndex.tsx 11-13)
DrawAgain(newIndex) ==
  /\ hook.mounted /\ hook.pc = "while"
  /\ ~isAcceptedIndex(hook.currentIndex, hook.newIndex, hook.maxIndex)
  /\ newIndex \in GetRandomInt(hook.maxIndex, hook.currentIndex)
  /\ HookStep([hook EXCEPT !.newIndex = newIndex, !.turn = 1 - @])

\* the loop is left and the index is set (useUpdateIndex.tsx 11 and 15)
SetCurrentIndex ==
  /\ hook.mounted /\ hook.pc = "while"
  /\ isAcceptedIndex(hook.currentIndex, hook.newIndex, hook.maxIndex)
  /\ HookStep([hook EXCEPT !.pc = "idle", !.currentIndex = hook.newIndex])

InitHook ==
  /\ words = <<>>
  /\ answers = <<>>
  /\ nextId = 1
  /\ now = 1
  /\ resp = NoResponse
  /\ lev = NoCall
  /\ inflight = NoRequests
  /\ card = NoCard
  /\ hook = MountedHook

NextHook ==
  \/ \E arrayLength \in 1..MaxArrayLength : CallUpdateIndex(arrayLength)
  \/ \E newIndex \in 0..(MaxArrayLength - 1) : DrawAgain(newIndex)
  \/ SetCurrentIndex

\* a call that is running goes on, and every index that can be drawn again
\* and again is drawn in the end
FairHook ==
  /\ WF_vars(SetCurrentIndex)
  /\ \A newIndex \in 0..(MaxArrayLength - 1) : SF_vars(DrawAgain(newIndex))

SpecHook == InitHook /\ [][NextHook]_vars /\ FairHook

\* ------------------------------------------------------------------------
\* Vocabulary of the claims, stated without the operators of the code
\* ------------------------------------------------------------------------

LowerOf ==
  ("a" :> "a") @@ ("A" :> "a") @@ ("b" :> "b") @@ ("B" :> "b") @@ (" " :> " ")

RECURSIVE StripLeft(_)
StripLeft(s) == IF s # <<>> /\ Head(s) = " " THEN StripLeft(Tail(s)) ELSE s

Reverse(s) == [i \in 1..Len(s) |-> s[Len(s) + 1 - i]]

\* s lowercased and without its surrounding white space
Normal(s) ==
  LET core == Reverse(StripLeft(Reverse(StripLeft(s))))
  IN  [i \in 1..Len(core) |-> LowerOf[core[i]]]

\* s is t cut short by at least one letter
IsProperPrefix(s, t) ==
  \E n \in 1..Len(t) :
    /\ Len(s) = Len(t) - n
    /\ \A i \in 1..Len(s) : s[i] = t[i]

\* s occurs in t
OccursIn(s, t) ==
  \E u \in 0..(Len(t) - Len(s)) : \A i \in 1..Len(s) : t[u + i] = s[i]

\* the strings one insertion, deletion or substitution away from s
OneEdit(s) ==
  {SubSeq(s, 1, i) \o <<c>> \o SubSeq(s, i + 1, Len(s)) :
     i \in 0..Len(s), c \in LowerChars}
  \cup {SubSeq(s, 1, i - 1) \o SubSeq(s, i + 1, Len(s)) : i \in 1..Len(s)}
  \cup {[s EXCEPT ![i] = c] : i \in 1..Len(s), c \in LowerChars}

\* the least number of edits that turn a string of ball into target, ball
\* being the strings k edits or fewer away from the start
RECURSIVE EditsNeeded(_, _, _)
EditsNeeded(ball, target, k) ==
  IF target \in ball THEN k
  ELSE EditsNeeded(ball \cup UNION {OneEdit(s) : s \in ball}, target, k + 1)

EditDistance(a, b) == EditsNeeded({a}, b, 0)

\* at most two edits apart: some string is at most one edit from both
WithinTwoEdits(s, t) ==
  (OneEdit(s) \cup {s}) \cap (OneEdit(t) \cup {t}) # {}

\* the synonym data the check is to consult: the accepted alternatives of
\* each canonical answer
SynonymSet(english) ==
  IF english = <<"a", "b">> THEN {<<"b", "a">>, <<"b", "b", "a">>}
  ELSE IF english = <<"b">> THEN {<<"a", "a", "a">>}
  ELSE {}

\* the last request was a check that was accepted
Checked == resp.op = "check" /\ resp.status = 200
Submitted == Normal(resp.answer)
Target == Normal(words[resp.wordId].english)

\* the last request was a study request
Studied == resp.op = "study"

\* a word is mastered once an Answer to it is recorded as correct
Mastered(id) ==
  Cardinality({i \in DOMAIN answers :
                 answers[i].wordId = id /\ answers[i].isCorrect = TRUE}) >= 1

\* the words the study request asked to choose from, and those of them that
\* are not mastered
Filtered == {r \in Rows : resp.favoriteOnly = "true" => r.isFavorite = TRUE}
Unmastered == {r \in Filtered : ~Mastered(r.id)}

\* the rows of a set that no row of the set is older than
Oldest(rows) == {r \in rows : ~\E o \in rows : o.createdAt < r.createdAt}

\* ------------------------------------------------------------------------
\* Claims
\* ------------------------------------------------------------------------

\* C1: a submitted text whose lowercased, trimmed form equals that of the
\* target is reported correct, not partial and without a hint.
C1_ExactIsCorrect ==
  (Checked /\ Submitted = Target) =>
    /\ resp.data.isCorrect = TRUE
    /\ resp.data.isPartial = FALSE
    /\ resp.data.hint = Undefined

\* the exact outcome reached by a text that differs from the target in case
\* and in surrounding white space
C1_Witness ==
  /\ Checked
  /\ Submitted = Target
  /\ resp.answer # words[resp.wordId].english
  /\ \E i \in DOMAIN resp.answer : resp.answer[i] = "B"
  /\ Head(resp.answer) = " "
  /\ resp.data.isCorrect

\* C2: a non-empty proper prefix of the target is reported partial with the
\* hint that counts the letters left, also when it is within two edits.
C2_PrefixHint ==
  (Checked /\ Submitted # <<>> /\ IsProperPrefix(Submitted, Target)) =>
    /\ resp.data.isCorrect = FALSE
    /\ resp.data.isPartial = TRUE
    /\ resp.data.hint = HintContinue(Len(Target) - Len(Submitted))

\* a prefix one letter short of the target, so also a near miss
C2_Witness ==
  /\ Checked
  /\ Submitted # <<>>
  /\ IsProperPrefix(Submitted, Target)
  /\ WithinTwoEdits(Submitted, Target)
  /\ resp.data.hint = HintContinue(1)

\* C3: a non-empty text that occurs in the target without being a prefix is
\* reported partial with the generic hint, also when it is within two edits.
C3_SubstringHint ==
  (/\ Checked
   /\ Submitted # <<>>
   /\ OccursIn(Submitted, Target)
   /\ ~IsProperPrefix(Submitted, Target)
   /\ Submitted # Target) =>
    /\ resp.data.isCorrect = FALSE
    /\ resp.data.isPartial = TRUE
    /\ resp.data.hint = HintPartially

\* the target without its first letter, so also a near miss
C3_Witness ==
  /\ Checked
  /\ Submitted # <<>>
  /\ Target # <<>>
  /\ Submitted = Tail(Target)
  /\ ~IsProperPrefix(Submitted, Target)
  /\ WithinTwoEdits(Submitted, Target)
  /\ resp.data.hint = HintPartially

\* C4: a non-empty text that is neither the target nor inside it is reported
\* partial with the spelling hint exactly when it is at most two edits from
\* the target, and otherwise incorrect without a hint.
C4_NearMissIffTwoEdits ==
  (/\ Checked
   /\ Submitted # <<>>
   /\ Submitted # Target
   /\ ~OccursIn(Submitted, Target)) =>
    /\ resp.data.isCorrect = FALSE
    /\ IF WithinTwoEdits(Submitted, Target)
       THEN resp.data.isPartial = TRUE /\ resp.data.hint = HintSpelling
       ELSE resp.data.isPartial = FALSE /\ resp.data.hint = Undefined

\* a near miss at exactly two edits: two letters swapped
C4_Witness ==
  /\ Checked
  /\ Submitted = <<"a", "b", "a">>
  /\ Target = <<"b", "a", "a">>
  /\ resp.data.hint = HintSpelling

\* C7: levenshteinDistance(a, b) is the least number of single-character
\* insertions, deletions and substitutions that turn a into b; it is
\* symmetric and 0 on equal strings.
C7_LevenshteinIsEditDistance ==
  lev.result # -1 =>
    /\ lev.result = EditDistance(lev.str1, lev.str2)
    /\ lev.result = levenshteinDistance(lev.str2, lev.str1)
    /\ (lev.str1 = lev.str2 => lev.result = 0)

\* a distance that needs an insertion and a deletion, not only substitutions
C7_Witness ==
  /\ lev.str1 = <<"a", "b", "b">>
  /\ lev.str2 = <<"b", "b", "a">>
  /\ lev.result = 2

\* C5: a submitted text that is a synonym of the target, and not the target,
\* is reported as a synonym (isSynonym set, neither correct nor partial) and
\* its Answer is recorded as not correct.
C5_SynonymOutcome ==
  (Checked /\ Submitted # Target /\ Submitted \in SynonymSet(Target)) =>
    /\ "isSynonym" \in DOMAIN resp.data
    /\ resp.data.isSynonym = TRUE
    /\ resp.data.isCorrect = FALSE
    /\ resp.data.isPartial = FALSE
    /\ answers[Len(answers)].isCorrect = FALSE

C8_AnswersAppendOnly ==
  [][IF resp'.op = "check" /\ resp'.status = 200
     THEN answers' =
            Append(answers,
                   [wordId |-> resp'.wordId,
                    answer |-> Normal(resp'.answer),
                    isCorrect |->
                      (Normal(resp'.answer) = Normal(words[resp'.wordId].english))])
     ELSE answers' = answers]_vars

\* a partial answer recorded as not correct after an exact one, the word
\* touched by other requests in between
C8_Witness ==
  /\ Len(answers) = 2
  /\ answers[1].isCorrect = TRUE
  /\ answers[2].isCorrect = FALSE
  /\ Checked
  /\ resp.data.isPartial = TRUE
  /\ words[1].isFavorite = TRUE

\* C9: when the filtered set holds a word without a correct Answer, the
\* study request returns the oldest such word of the filtered set, never a
\* mastered word and never, under favoriteOnly, a word that is no favourite.
C9_OldestUnmastered ==
  (Studied /\ Unmastered # {}) =>
    /\ resp.status = 200
    /\ resp.data \in Oldest(Unmastered)

\* a favourites-only request that passes over an older, mastered favourite
C9_Witness ==
  /\ Studied
  /\ resp.favoriteOnly = "true"
  /\ resp.status = 200
  /\ \E r \in Filtered : Mastered(r.id) /\ r.createdAt < resp.data.createdAt
  /\ resp.data \in Unmastered

\* C10: when the excluded id is that of the oldest unmastered word of the
\* filtered set and another unmastered word is in it, the study request
\* returns the next oldest unmastered word, not the excluded one.
C10_ExcludedIsSkipped ==
  (/\ Studied
   /\ resp.excludeId # 0
   /\ \E r \in Oldest(Unmastered) : r.id = resp.excludeId
   /\ \E r \in Unmastered : r.id # resp.excludeId) =>
    /\ resp.status = 200
    /\ resp.data \in Oldest({r \in Unmastered : r.id # resp.excludeId})

\* C11: the study request reports not-found exactly when the filtered set is
\* empty; when every word of a non-empty filtered set is mastered it returns
\* the oldest word of the filtered set.
C11_NotFoundIffEmpty ==
  Studied =>
    /\ (resp.status = 404) = (Filtered = {})
    /\ (Filtered # {} /\ Unmastered = {}) =>
         (resp.status = 200 /\ resp.data \in Oldest(Filtered))

\* the fallback taken over two mastered words: the older one is returned
C11_Witness ==
  /\ Studied
  /\ Cardinality(Filtered) = 2
  /\ Unmastered = {}
  /\ resp.status = 200
  /\ \E r \in Filtered : resp.data.createdAt < r.createdAt

\* C12: a check request whose text is missing, empty or empty once trimmed
\* is answered with an error and records no Answer.
C12_BlankIsRejected ==
  [][(resp'.op = "check" /\ Normal(resp'.answer) = <<>>) =>
       (resp'.status # 200 /\ answers' = answers)]_vars

\* C13: every accepted check response, whatever its outcome, carries the
\* stored english text of the word as correctAnswer.
C13_CorrectAnswerShown ==
  Checked => resp.data.correctAnswer = words[resp.wordId].english

\* an incorrect outcome, no partial match, that still shows the answer
C13_Witness ==
  /\ Checked
  /\ resp.data.isCorrect = FALSE
  /\ resp.data.isPartial = FALSE
  /\ Submitted # <<>>
  /\ Len(resp.data.correctAnswer) = 3
  /\ resp.data.correctAnswer = words[resp.wordId].english

\* the favourite requests on a word, and those of them answered 200
TogglesOf(id) ==
  {p \in DOMAIN inflight : inflight[p].op = "favorite" /\ inflight[p].id = id}
ToggledOf(id) ==
  {p \in TogglesOf(id) : inflight[p].pc = "done" /\ inflight[p].status = 200}

\* C14: once every favourite request on a word, not a favourite at first,
\* is answered, the word is a favourite exactly when the number of requests
\* answered 200 is odd, however the requests overlapped.
C14_NoLostToggle ==
  \A id \in DOMAIN words :
    (\A p \in TogglesOf(id) : inflight[p].pc = "done") =>
      (words[id].isFavorite = (Cardinality(ToggledOf(id)) % 2 = 1))

\* C15: the counts and the accuracy of every stats response are consistent:
\* no more correct answers than answers, no more learned words than words,
\* an accuracy between 0 and 100 that is 0 when no answer was counted.
C15_StatsConsistent ==
  (resp.op = "stats" /\ resp.status = 200) =>
    /\ resp.data.correctAnswers <= resp.data.totalAnswers
    /\ resp.data.learnedWords <= resp.data.totalWords
    /\ resp.data.accuracy >= 0
    /\ resp.data.accuracy <= 100
    /\ (resp.data.totalAnswers = 0 => resp.data.accuracy = 0)

\* C16: the study card never calls onWordCompleted more often than it has
\* received correct results, and once the correct result is off the card
\* and no timer is pending it has called it exactly as often.
C16_CompletedOnce ==
  card.mounted =>
    /\ card.completed <= card.correct
    /\ (card.result # "correct" /\ ~card.timer) =>
         card.completed = card.correct

\* C17: a word with a correct Answer stays mastered over every step that
\* keeps the word, and a study request never returns a mastered word while
\* the filtered set holds an unmastered one.
C17_MasteryIsMonotone ==
  /\ [][\A id \in DOMAIN words :
          (Mastered(id) /\ id \in DOMAIN words') => Mastered(id)']_vars
  /\ []((Studied /\ resp.status = 200 /\ Mastered(resp.data.id)) =>
          Unmastered = {})

\* a word answered correctly and then wrongly is passed over for a younger
\* word without a correct Answer
C17_Witness ==
  /\ Studied
  /\ resp.status = 200
  /\ ~Mastered(resp.data.id)
  /\ Len(answers) = 2
  /\ answers[1].isCorrect = TRUE
  /\ answers[2].isCorrect = FALSE
  /\ answers[2].wordId = answers[1].wordId
  /\ \E r \in Filtered :
       r.id = answers[1].wordId /\ r.createdAt < resp.data.createdAt

\* C18: every call of updateIndex leaves its loop, and the index it sets
\* lies within the array it was called for.
C18_UpdateIndexTerminates ==
  /\ [](hook.pc = "idle" => hook.currentIndex \in 0..hook.maxIndex)
  /\ (hook.pc = "while") ~> (hook.pc = "idle")

====
